---- MODULE Spec2Model ----
(***************************************************************************)
(* The search-and-selection engine of the exam bank web site.              *)
(*                                                                         *)
(* Two generations of the page scripts are in the repository:              *)
(*   variant "current": static/index.js (course page), unnamed/part_001    *)
(*                      (exam page) and the shared helpers at              *)
(*                      static/exams.js:149-178;                           *)
(*   variant "legacy":  static/search.js (course page) and                 *)
(*                      static/exams.js:1-147 (exam page).                 *)
(* One behaviour is one document (one page view and its reloads) of one    *)
(* variant.  A string is a sequence of tokens: a token is one character,   *)
(* or a literal of the source that no code takes apart.                    *)
(***************************************************************************)
EXTENDS Integers, Sequences, FiniteSets, TLC

VARIABLES
    variant,        \* "current" | "legacy": which scripts the document runs
    page,           \* "index" | "exams"
    server,         \* the static catalog: [courses, name, exams]
    courseParam,    \* ?course= : <<>> when absent, <<code>> otherwise
    hash,           \* window.location.hash
    pc,             \* "loading" (document.ready pending) | "ready" | "unloaded"
    nav,            \* <<>> or <<href>>: an assignment to window.location.href
    fetch,          \* the catalog getJSON: "none" | "pending" | "done" | "failed"
    rootFetch,      \* legacy exam page's getJSON(ROOT_DB_JSON), same values
    courses_dict,   \* index.js courses_dict / search.js root_json: <<>> is null
    exams_list,     \* part_001 exams_list / exams.js exams_json: <<>> is null
    selected_id,    \* the selected exam id (a JS number, NaN included)
    input,          \* $("#search").val()
    timers,         \* the event loop's pending timeouts
    debounce,       \* the handle kept by the keyup handler, 0 for null
    dom,            \* children of #exam-list / #course-list
    course_label,   \* text of #course-code, <<>> while it is the static markup
    exam_count,     \* text of #exam_count, <<>> while it is the static markup
    uncaught,       \* names of the exceptions that escaped a handler
    last,           \* history: the last event, <<name>> or <<name, value>>: the
                    \* timeouts a keyup cleared, the exam clicked before a
                    \* click, the URL a click opened
    clickRun,       \* history: the user's clicks on one exam in a row
    reloadedWith    \* history: the exam the visitor had selected by a click when
                    \* the page was reloaded, until the next click; 0 otherwise

vars == <<variant, page, server, courseParam, hash, pc, nav, fetch, rootFetch,
          courses_dict, exams_list, selected_id, input, timers, debounce, dom,
          course_label, exam_count, uncaught, last, clickRun, reloadedWith>>

-----------------------------------------------------------------------------
(* Bounds of the model *)

\* longest exam list a course document holds
MaxExams == 2
\* pending timeouts the event loop is followed up to
MaxTimers == 2
\* longest "courses" object the root document holds
MaxCourses == 2
\* longest list a search is applied to on its own
MaxSearchList == 3
\* longest text the normalizer is applied to on its own
MaxTextLen == 3

-----------------------------------------------------------------------------
(* Strings *)

LatinCapitalEAcute == "U+00C9"
LatinSmallEAcute == "U+00E9"
CombiningAcute == "U+0301"

Digits == <<"0", "1", "2", "3", "4", "5", "6", "7", "8", "9">>

IsDigit(c) == \E i \in 1..10 : Digits[i] = c

DigitValue(c) == (CHOOSE i \in 1..10 : Digits[i] = c) - 1

IsSpace(c) == c = " "

RECURSIVE Concat(_)
\* the elements of a sequence of strings, joined
Concat(ss) == IF ss = <<>> THEN <<>> ELSE Head(ss) \o Concat(Tail(ss))

\* String.prototype.substr(start) and substr(0, n), 0-based
SubstrFrom(s, start) == SubSeq(s, start + 1, Len(s))

SubstrTo(s, n) == SubSeq(s, 1, IF n < Len(s) THEN n ELSE Len(s))

\* an includes that finds the empty string nowhere
IncludesNonEmpty(s, sub) ==
    /\ sub # <<>>
    /\ \E k \in 1..(Len(s) - Len(sub) + 1) : SubSeq(s, k, k + Len(sub) - 1) = sub

\* String.prototype.includes
Includes(s, sub) ==
    \E i \in 0..(Len(s) - Len(sub)) : SubSeq(s, i + 1, i + Len(sub)) = sub

RECURSIVE TrimStart(_)
TrimStart(s) ==
    IF s # <<>> /\ IsSpace(Head(s)) THEN TrimStart(Tail(s)) ELSE s

RECURSIVE TrimEnd(_)
TrimEnd(s) ==
    IF s # <<>> /\ IsSpace(s[Len(s)]) THEN TrimEnd(SubSeq(s, 1, Len(s) - 1)) ELSE s

\* a trim that removes nothing
Untrimmed(s) == s

\* String.prototype.trim
Trim(s) == TrimEnd(TrimStart(s))

LowerChar(c) ==
    CASE c = "A" -> "a"
      [] c = "E" -> "e"
      [] c = "G" -> "g"
      [] c = "I" -> "i"
      [] c = "L" -> "l"
      [] c = "O" -> "o"
      [] c = "R" -> "r"
      [] c = "T" -> "t"
      [] c = "Z" -> "z"
      [] c = LatinCapitalEAcute -> LatinSmallEAcute
      [] OTHER -> c

\* String.prototype.toLowerCase
ToLowerCase(s) == [i \in 1..Len(s) |-> LowerChar(s[i])]

\* canonical decomposition of one character
DecomposeChar(c) ==
    CASE c = LatinSmallEAcute -> <<"e", CombiningAcute>>
      [] c = LatinCapitalEAcute -> <<"E", CombiningAcute>>
      [] OTHER -> <<c>>

\* String.prototype.normalize("NFD")
NFD(s) == Concat([i \in 1..Len(s) |-> DecomposeChar(s[i])])

\* the class [\u0300-\u036f] of the combining diacritical marks
IsCombiningMark(c) == c = CombiningAcute

\* a replace without the g flag: the first combining mark alone is removed
StripsFirstMark(s) ==
    LET d == NFD(s)
        marks == {i \in 1..Len(d) : IsCombiningMark(d[i])}
    IN  IF marks = {} THEN d
        ELSE LET m == CHOOSE i \in marks : \A j \in marks : i <= j
             IN  SubSeq(d, 1, m - 1) \o SubSeq(d, m + 1, Len(d))

\* String.prototype.removeDiacritics
removeDiacritics(s) == SelectSeq(NFD(s), LAMBDA c : ~IsCombiningMark(c))

\* String.prototype.includesBothways
includesBothways(this, str) == Includes(this, str) \/ Includes(str, this)

RECURSIVE NatToString(_)
\* Number.prototype.toString of a natural number
NatToString(n) ==
    IF n < 10 THEN <<Digits[n + 1]>>
    ELSE NatToString(n \div 10) \o <<Digits[(n % 10) + 1]>>

\* the JS number NaN; every other number of the model is a natural
NaN == -1

\* === and !== on numbers: NaN equals nothing, itself included
StrictEq(a, b) == a # NaN /\ b # NaN /\ a = b

StrictNeq(a, b) == ~StrictEq(a, b)

RECURSIVE DigitPrefix(_)
\* the longest prefix of decimal digits
DigitPrefix(s) ==
    IF s # <<>> /\ IsDigit(Head(s)) THEN <<Head(s)>> \o DigitPrefix(Tail(s))
    ELSE <<>>

RECURSIVE DigitsToNat(_)
DigitsToNat(ds) ==
    IF ds = <<>> THEN 0
    ELSE 10 * DigitsToNat(SubSeq(ds, 1, Len(ds) - 1)) + DigitValue(ds[Len(ds)])

\* a load that reads no exam id from the fragment
ParsesNothing(s) == NaN

\* parseInt(s) on unsigned decimal text: leading white space is skipped, the
\* digits up to the first other character are read, NaN when there are none
parseInt(s) ==
    LET ds == DigitPrefix(TrimStart(s))
    IN  IF ds = <<>> THEN NaN ELSE DigitsToNat(ds)

-----------------------------------------------------------------------------
(* The static catalog the pages fetch *)

\* exams a course document may hold: {id, y, s, a, t, h}
ExamA == [id |-> 1, y |-> 2021, s |-> 2, a |-> <<"R", "o">>, t |-> <<>>,
          h |-> << <<"a", "b", "1">>, <<"c">> >>]

ExamB == [id |-> 2, y |-> 2021, s |-> 0, a |-> <<"a", "l">>,
          t |-> <<LatinCapitalEAcute, "t">>, h |-> << <<"e", "f", "3">> >>]

ExamC == [id |-> 3, y |-> 2020, s |-> 1, a |-> <<"r", "o">>, t |-> <<"g", "i">>,
          h |-> <<>>]

ExamPool == {ExamA, ExamB, ExamC}

\* the exam lists: up to MaxExams exams of the pool, in the order of their ids
\* (which is not the order the search sorts them in)
ExamLists ==
    {l \in UNION {[1..n -> ExamPool] : n \in 0..MaxExams} :
        \A i, j \in 1..Len(l) : i < j => l[i].id < l[j].id}

\* entries of the root document's "courses" object, in document order
CourseA == [code |-> <<"g", "i">>, name |-> <<"G", LatinSmallEAcute>>]

CourseB == [code |-> <<"a", "i">>, name |-> <<"I", "a">>]

CourseC == [code |-> <<"G", "A">>, name |-> <<"r", "e">>]

CoursePool == {CourseA, CourseB, CourseC}

RootCatalogs ==
    {l \in UNION {[1..n -> CoursePool] : n \in 0..MaxCourses} :
        \A i, j \in 1..Len(l) : i # j => l[i].code # l[j].code}

DefaultCourses == <<CourseA, CourseB>>

DefaultExams == <<ExamA, ExamB>>

\* the course whose document db/<code>.json exists
ValidCode == CourseA.code

Servers ==
    {[courses |-> c, exams |-> DefaultExams] : c \in RootCatalogs}
    \cup {[courses |-> DefaultCourses, exams |-> l] : l \in ExamLists}

\* db/root.json
RootDocument(srv) == [exam_count |-> Len(srv.exams), courses |-> srv.courses]

\* obj[key] on the "courses" object: <<>> when the key is absent
Lookup(dict, key) ==
    IF \E i \in 1..Len(dict) : dict[i].code = key
    THEN <<(dict[CHOOSE i \in 1..Len(dict) : dict[i].code = key]).name>>
    ELSE <<>>

\* db/<code>.json of the current layout
CourseDocument(srv) == [name |-> CourseA.name, exams |-> srv.exams]

\* the values ?course= takes
CourseParams == {<<>>, << <<>> >>, <<ValidCode>>, << <<"z", "z">> >>}

\* the fragments a document is opened with
Fragments == { <<>>, <<"#", "7">>, <<"#", "a">>, <<"#", "2", "a">> }

\* the texts the visitor puts in the search box
Queries == { <<>>, <<" ", "R", "O">>, <<LatinSmallEAcute>> }

-----------------------------------------------------------------------------
(* Exam search: sort, filter *)

\* a comparator of the years alone, ascending
CompareYearsAscending(a, b) == a.y - b.y

\* the comparator (a, b) => (b.y - a.y) || (a.s - b.s), negative when a sorts first
CompareExams(a, b) == IF b.y - a.y # 0 THEN b.y - a.y ELSE a.s - b.s

\* x placed in a sorted sequence behind the elements that do not sort after it
InsertSorted(sorted, x, cmp) ==
    LET k == CHOOSE i \in 0..Len(sorted) :
                 /\ \A j \in 1..i : cmp[sorted[j], x] <= 0
                 /\ i < Len(sorted) => cmp[sorted[i + 1], x] > 0
    IN  SubSeq(sorted, 1, k) \o <<x>> \o SubSeq(sorted, k + 1, Len(sorted))

\* Array.prototype.sort with a comparator (a function of two elements of the
\* array), stable; the argument is not changed
SortBy(list, cmp) ==
    LET sorted[n \in 0..Len(list)] ==
            IF n = 0 THEN <<>> ELSE InsertSorted(sorted[n - 1], list[n], cmp)
    IN  sorted[Len(list)]

\* query != null && query.trim(): the query is <<>> for null, <<text>> otherwise
HasQuery(query) == query # <<>> /\ Trim(query[1]) # <<>>

\* query.trim().toLowerCase().removeDiacritics()
QueryNorm(query) == removeDiacritics(ToLowerCase(Trim(query[1])))

\* the filter callback of the exam search
ExamMatches(exam, query_norm) ==
    LET title_norm == removeDiacritics(ToLowerCase(exam.t))
        author_norm == removeDiacritics(ToLowerCase(exam.a))
        year_str == NatToString(exam.y)
    IN  \/ includesBothways(query_norm, year_str)
        \/ includesBothways(query_norm, title_norm)
        \/ includesBothways(query_norm, author_norm)

\* the exams of a list in the order of CompareExams
SortExams(list) ==
    LET elems == {list[i] : i \in 1..Len(list)}
    IN  SortBy(list, [a \in elems, b \in elems |-> CompareExams(a, b)])

\* a search that sorts the array exams_list refers to
SortedInPlace(list) == [source |-> SortExams(list), exams |-> SortExams(list)]

\* let exams = exams_list.slice(); exams.sort(...): sort works in place, on the
\* copy; source is the array exams_list refers to afterwards
SortedCopy(list) == [source |-> list, exams |-> SortExams(list)]

\* the exams the exam search hands to the renderer
SearchExams(list, query) ==
    LET exams == SortedCopy(list).exams
    IN  IF HasQuery(query)
        THEN SelectSeq(exams, LAMBDA exam : ExamMatches(exam, QueryNorm(query)))
        ELSE exams

-----------------------------------------------------------------------------
(* Course search *)

\* rank of a character in the collation of String.prototype.localeCompare:
\* letters by base letter, the lower case before the upper case, accents last
CollationKey(c) ==
    CASE c = "a" -> 10 [] c = "A" -> 11
      [] c = "e" -> 20 [] c = "E" -> 21
      [] c = LatinSmallEAcute -> 22 [] c = LatinCapitalEAcute -> 23
      [] c = "g" -> 30 [] c = "G" -> 31
      [] c = "i" -> 40 [] c = "I" -> 41
      [] c = "l" -> 50 [] c = "L" -> 51
      [] c = "o" -> 60 [] c = "O" -> 61
      [] c = "r" -> 70 [] c = "R" -> 71
      [] c = "t" -> 80 [] c = "T" -> 81
      [] c = "z" -> 90 [] c = "Z" -> 91
      [] OTHER -> 0

\* a.localeCompare(b): letters decide before case does
LocaleCompare(a, b) ==
    LET Base(s) == [i \in 1..Len(s) |-> CollationKey(s[i]) \div 10]
        Full(s) == [i \in 1..Len(s) |-> CollationKey(s[i])]
        Lex(x, y) ==
            LET n == IF Len(x) < Len(y) THEN Len(x) ELSE Len(y)
                d == {i \in 1..n : x[i] # y[i]}
            IN  IF d = {} THEN Len(x) - Len(y)
                ELSE LET i == CHOOSE m \in d : \A o \in d : m <= o
                     IN  x[i] - y[i]
    IN  IF Lex(Base(a), Base(b)) # 0 THEN Lex(Base(a), Base(b))
        ELSE Lex(Full(a), Full(b))

CompareCourses(a, b) == LocaleCompare(a.code, b.code)

\* the filter callback of the course search
CourseMatches(course, query_norm) ==
    LET name_norm == removeDiacritics(ToLowerCase(course.name))
    IN  \/ includesBothways(query_norm, course.code)
        \/ includesBothways(query_norm, name_norm)

\* the courses the course search hands to the renderer; dict is the "courses"
\* object, whose properties for..in visits in document order
SearchCourses(dict, query) ==
    LET elems == {dict[i] : i \in 1..Len(dict)}
        courses == SortBy(dict, [a \in elems, b \in elems |-> CompareCourses(a, b)])
    IN  IF HasQuery(query)
        THEN SelectSeq(courses, LAMBDA course : CourseMatches(course, QueryNorm(query)))
        ELSE courses

-----------------------------------------------------------------------------
(* The rendered lists *)

UpperChar(c) ==
    CASE c = "a" -> "A"
      [] c = "e" -> "E"
      [] c = "g" -> "G"
      [] c = "i" -> "I"
      [] c = "l" -> "L"
      [] c = "o" -> "O"
      [] c = "r" -> "R"
      [] c = "t" -> "T"
      [] c = "z" -> "Z"
      [] c = LatinSmallEAcute -> LatinCapitalEAcute
      [] OTHER -> c

\* String.prototype.toUpperCase
ToUpperCase(s) == [i \in 1..Len(s) |-> UpperChar(s[i])]

EXAM_LOCATION == <<"exam/">>

\* the separator of a list item's two parts, as each script spells it
Separator(v, pg) ==
    IF v = "current" /\ pg = "index" THEN <<" ", "U+00E2", "U+20AC", "U+201D", " ">>
    ELSE <<" ", "U+2014", " ">>

\* `${EXAM_LOCATION}${file_hash.substr(0, 2)}/${file_hash}.pdf`
FileUrl(file_hash) ==
    EXAM_LOCATION \o SubstrTo(file_hash, 2) \o <<"/">> \o file_hash \o <<".pdf">>

\* a file row labelled with the index of the loop
FileItemZeroBased(exam, i) ==
    [cls |-> "file-item", text |-> <<"Fichier ">> \o NatToString(i - 1),
     url |-> FileUrl(exam.h[i]), of |-> exam.id]

\* the li built for exam.h[i - 1]: its text counts from 1, its click handler
\* opens url; "of" records the exam it was built for
FileItem(exam, i) ==
    [cls |-> "file-item", text |-> <<"Fichier ">> \o NatToString(i),
     url |-> FileUrl(exam.h[i]), of |-> exam.id]

\* the li built for the li-th exam of a rendering; its click handler holds exam
ExamItem(exam, li) ==
    [cls |-> "listitem", li |-> li,
     start |-> NatToString(exam.y) \o <<(<<"H", "E", "A">>)[exam.s + 1]>>,
     text |-> Separator("current", "exams")
              \o (IF exam.a # <<>> THEN exam.a ELSE <<"Auteur inconnu">>)
              \o Separator("current", "exams")
              \o (IF exam.t # <<>> THEN exam.t ELSE <<"Examen inconnu">>),
     exam |-> exam]

\* select_exam without the folding of the rows it finds
KeepFileItems(nodes) == nodes

\* $(".file-item").remove()
RemoveFileItems(nodes) == SelectSeq(nodes, LAMBDA n : n.cls # "file-item")

\* rows.insertAfter(li), the rows chained one behind the other
InsertAfter(nodes, li, rows) ==
    LET p == CHOOSE k \in 1..Len(nodes) : nodes[k].cls = "listitem" /\ nodes[k].li = li
    IN  SubSeq(nodes, 1, p) \o rows \o SubSeq(nodes, p + 1, Len(nodes))

\* history.replaceState(null, null, "#" + id) as location.hash then reads: an
\* empty fragment reads as the empty string
HashAfterReplace(fragment) == IF fragment = <<>> THEN <<>> ELSE <<"#">> \o fragment

\* select_exam without its toggle-off branch
ExpandsAlways(sel, exam, unselect) == TRUE

\* select_exam deciding without its unselect argument
ExpandsUnlessSelected(sel, exam, unselect) == StrictNeq(sel, exam.id)

\* the branch select_exam takes: TRUE to expand the exam, FALSE to toggle it off
Expands(sel, exam, unselect) == ~unselect \/ StrictNeq(sel, exam.id)

\* select_exam(exam, exam_li, unselect) on w = [dom, selected_id, hash]
select_exam(w, exam, li, unselect) ==
    LET folded == RemoveFileItems(w.dom)
    IN  IF Expands(w.selected_id, exam, unselect)
        THEN [dom |-> InsertAfter(folded, li,
                                  [i \in 1..Len(exam.h) |-> FileItem(exam, i)]),
              selected_id |-> exam.id,
              hash |-> HashAfterReplace(NatToString(exam.id))]
        ELSE [dom |-> folded, selected_id |-> 0, hash |-> HashAfterReplace(<<>>)]

\* a rendering that does not restore the selected exam
create_exam_list_folded(w, exams) ==
    [w EXCEPT !.dom = [n \in 1..Len(exams) |-> ExamItem(exams[n], n)]]

\* create_exam_list(exams) on w = [dom, selected_id, hash]
create_exam_list(w, exams) ==
    LET built[n \in 0..Len(exams)] ==
            IF n = 0 THEN [w EXCEPT !.dom = <<>>]
            ELSE LET appended == [built[n - 1] EXCEPT
                                     !.dom = Append(@, ExamItem(exams[n], n))]
                 IN  IF StrictEq(exams[n].id, appended.selected_id)
                     THEN select_exam(appended, exams[n], n, FALSE)
                     ELSE appended
    IN  built[Len(exams)]

\* the li built for the li-th course; its click handler holds course
CourseItem(v, course, li) ==
    [cls |-> "listitem", li |-> li, start |-> ToUpperCase(course.code),
     text |-> Separator(v, "index") \o course.name, course |-> course]

\* create_course_list(courses)
create_course_list(v, courses) ==
    [n \in 1..Len(courses) |-> CourseItem(v, courses[n], n)]

\* `exams.html?course=${course.code}`
ExamsHref(course) == <<"exams.html?course=">> \o course.code

\* where a failed exam page sends the visitor
IndexHref(v) == IF v = "current" THEN <<".">> ELSE <<"index.html">>

-----------------------------------------------------------------------------
(* The document's start *)

\* no click since the document's start
NoClick == [id |-> 0, n |-> 0]

Init ==
    /\ variant \in {"current", "legacy"}
    /\ page \in {"index", "exams"}
    /\ server \in Servers
    /\ page = "index" => server.exams = DefaultExams
    /\ page = "exams" => server.courses = DefaultCourses
    /\ courseParam \in CourseParams
    /\ hash \in Fragments
    /\ page = "index" => courseParam = <<>> /\ hash = <<>>
    /\ pc = "loading"
    /\ nav = <<>>
    /\ fetch = "none"
    /\ rootFetch = "none"
    /\ courses_dict = <<>>
    /\ exams_list = <<>>
    /\ selected_id = 0
    /\ input = <<>>
    /\ timers = {}
    /\ debounce = 0
    /\ dom = <<>>
    /\ course_label = <<>>
    /\ exam_count = <<>>
    /\ uncaught = {}
    /\ last = <<"open">>
    /\ clickRun = NoClick
    /\ reloadedWith = 0

\* the variables no script writes
UrlVars == <<variant, page, server, courseParam>>

\* load_exams(), then the registration of the search events
LoadExams ==
    /\ pc = "loading"
    /\ page = "exams"
    /\ IF courseParam # <<>> /\ courseParam[1] # <<>>
       THEN /\ fetch' = "pending"
            /\ course_label' = ToUpperCase(courseParam[1])
            /\ rootFetch' = IF variant = "legacy" THEN "pending" ELSE rootFetch
            /\ exam_count' = IF variant = "legacy" THEN <<"0">> ELSE exam_count
            /\ nav' = nav
       ELSE /\ nav' = <<IndexHref(variant)>>
            /\ UNCHANGED <<fetch, rootFetch, course_label, exam_count>>
    /\ selected_id' = parseInt(SubstrFrom(hash, 1))
    /\ debounce' = 0
    /\ pc' = "ready"
    /\ last' = <<"load">>
    /\ UNCHANGED <<UrlVars, reloadedWith, hash, courses_dict, exams_list, input, timers, dom,
                   uncaught, clickRun>>

\* load_courses(), then the registration of the search events
LoadCourses ==
    /\ pc = "loading"
    /\ page = "index"
    /\ fetch' = "pending"
    /\ debounce' = 0
    /\ pc' = "ready"
    /\ last' = <<"load">>
    /\ UNCHANGED <<UrlVars, reloadedWith, hash, nav, rootFetch, courses_dict, exams_list,
                   selected_id, input, timers, dom, course_label, exam_count,
                   uncaught, clickRun>>

-----------------------------------------------------------------------------
(* The search callbacks *)

\* the query a search call filters by: the current scripts read the search box
\* inside search(), the legacy ones take the caller's argument (<<>> for null)
QueryOfCall(arg) == IF variant = "current" THEN <<input>> ELSE arg

\* the exam page's search, with list the value of exams_list when it is called
ExamPageSearch(list, arg) ==
    IF list = <<>>
    THEN /\ exams_list' = list
         /\ UNCHANGED <<dom, selected_id, hash, uncaught>>
    ELSE LET w == create_exam_list(
                      [dom |-> dom, selected_id |-> selected_id, hash |-> hash],
                      SearchExams(list[1], QueryOfCall(arg)))
         IN  /\ exams_list' = <<SortedCopy(list[1]).source>>
             /\ dom' = w.dom
             /\ selected_id' = w.selected_id
             /\ hash' = w.hash
             /\ uncaught' = uncaught

\* the course page's search, with dict the value of courses_dict / root_json
\* when it is called: for..in over null visits nothing, root_json.courses of
\* null throws
CoursePageSearch(dict, arg) ==
    IF dict = <<>> /\ variant = "legacy"
    THEN /\ uncaught' = uncaught \cup {"TypeError"}
         /\ UNCHANGED <<dom, selected_id, hash>>
    ELSE /\ dom' = create_course_list(variant,
                       SearchCourses(IF dict = <<>> THEN <<>> ELSE dict[1],
                                     QueryOfCall(arg)))
         /\ UNCHANGED <<selected_id, hash, uncaught>>

\* the callback the search events run
search(arg) ==
    IF page = "exams" THEN ExamPageSearch(exams_list, arg)
    ELSE CoursePageSearch(courses_dict, arg) /\ exams_list' = exams_list

-----------------------------------------------------------------------------
(* The fetches *)

\* the success callback of the exam page's getJSON
ExamsFetchResolve ==
    /\ pc = "ready"
    /\ page = "exams"
    /\ fetch = "pending"
    /\ courseParam = <<ValidCode>>
    /\ fetch' = "done"
    /\ ExamPageSearch(<<CourseDocument(server).exams>>, <<>>)
    /\ course_label' =
           IF variant = "current"
           THEN ToUpperCase(courseParam[1]) \o Separator(variant, page)
                    \o CourseDocument(server).name
           ELSE course_label
    /\ exam_count' = NatToString(Len(exams_list'[1]))
    /\ last' = <<"resolve">>
    /\ UNCHANGED <<UrlVars, reloadedWith, pc, nav, rootFetch, courses_dict, input, timers,
                   debounce, clickRun>>

\* a fail callback that does not redirect
ExamsFetchFailStays ==
    /\ pc = "ready"
    /\ page = "exams"
    /\ fetch = "pending"
    /\ fetch' = "failed"
    /\ last' = <<"fail">>
    /\ UNCHANGED <<UrlVars, reloadedWith, hash, pc, nav, rootFetch, courses_dict,
                   exams_list, selected_id, input, timers, debounce, dom,
                   course_label, exam_count, uncaught, clickRun>>

\* the fail callback of the exam page's getJSON
ExamsFetchFail ==
    /\ pc = "ready"
    /\ page = "exams"
    /\ fetch = "pending"
    /\ fetch' = "failed"
    /\ nav' = <<IndexHref(variant)>>
    /\ last' = <<"fail">>
    /\ UNCHANGED <<UrlVars, reloadedWith, hash, pc, rootFetch, courses_dict, exams_list,
                   selected_id, input, timers, debounce, dom, course_label,
                   exam_count, uncaught, clickRun>>

\* the success callback of the legacy exam page's getJSON(ROOT_DB_JSON)
RootFetchResolve ==
    /\ pc = "ready"
    /\ page = "exams"
    /\ rootFetch = "pending"
    /\ rootFetch' = "done"
    /\ LET course_name == Lookup(RootDocument(server).courses, courseParam[1])
       IN  course_label' =
               IF course_name # <<>> /\ course_name[1] # <<>>
               THEN ToUpperCase(courseParam[1]) \o Separator(variant, page)
                        \o course_name[1]
               ELSE course_label
    /\ last' = <<"rootResolve">>
    /\ UNCHANGED <<UrlVars, reloadedWith, hash, pc, nav, fetch, courses_dict, exams_list,
                   selected_id, input, timers, debounce, dom, exam_count,
                   uncaught, clickRun>>

\* the success callback of the course page's getJSON; it has no fail callback,
\* so a failed fetch is a fetch that stays pending
CoursesFetchResolve ==
    /\ pc = "ready"
    /\ page = "index"
    /\ fetch = "pending"
    /\ fetch' = "done"
    /\ courses_dict' = <<RootDocument(server).courses>>
    /\ CoursePageSearch(courses_dict', <<>>)
    /\ exam_count' = NatToString(RootDocument(server).exam_count)
    /\ last' = <<"resolve">>
    /\ UNCHANGED <<UrlVars, reloadedWith, pc, nav, rootFetch, exams_list, input, timers,
                   debounce, course_label, clickRun>>

-----------------------------------------------------------------------------
(* The search box: typing, the debounce timer, Enter *)

\* the visitor edits the text of the search box
Type ==
    /\ pc = "ready"
    /\ \E text \in Queries : text # input /\ input' = text
    /\ last' = <<"type">>
    /\ UNCHANGED <<UrlVars, reloadedWith, hash, pc, nav, fetch, rootFetch, courses_dict,
                   exams_list, selected_id, timers, debounce, dom, course_label,
                   exam_count, uncaught, clickRun>>

\* a keyup handler that clears nothing
ClearNothing(pending, handle) == pending

\* clearTimeout(handle): the timeout with that handle, if it is still pending
ClearTimeout(pending, handle) == {t \in pending : t.id # handle}

\* a handle setTimeout returns: one that no pending timeout and no kept handle has
FreshHandle(pending, handle) ==
    CHOOSE i \in 1..(Cardinality(pending) + 2) :
        /\ i # handle
        /\ \A t \in pending : t.id # i
        /\ \A j \in 1..(i - 1) : j = handle \/ \E t \in pending : t.id = j

\* the timeouts pending after the keyup handler; "text" records the text of the
\* search box when the timeout was set
AfterKeyup(pending, handle) ==
    ClearTimeout(pending, handle)
        \cup {[id |-> FreshHandle(pending, handle), text |-> input]}

\* the keyup handler
Keyup ==
    /\ pc = "ready"
    /\ Cardinality(timers) < MaxTimers
    /\ timers' = AfterKeyup(timers, debounce)
    /\ debounce' = FreshHandle(timers, debounce)
    /\ last' = <<"keyup", Cardinality(timers \ ClearTimeout(timers, debounce))>>
    /\ UNCHANGED <<UrlVars, reloadedWith, hash, pc, nav, fetch, rootFetch, courses_dict,
                   exams_list, selected_id, input, dom, course_label, exam_count,
                   uncaught, clickRun>>

\* a timeout's function that kept the text read when the timeout was set
TimeoutArgumentWhenSet(t) == <<t.text>>

\* the argument the timeout's function gives the legacy search: the text of the
\* search box as it is when the timeout fires
TimeoutArgument(t) == <<input>>

\* a pending timeout fires and runs the callback
TimerFire ==
    /\ pc = "ready"
    /\ \E t \in timers :
        /\ timers' = timers \ {t}
        /\ search(TimeoutArgument(t))
    /\ last' = <<"timer">>
    /\ UNCHANGED <<UrlVars, reloadedWith, pc, nav, fetch, rootFetch, courses_dict,
                   input, debounce, course_label, exam_count, clickRun>>

\* a keypress handler that clears the pending timeout
CancelOnEnter(pending, handle) == ClearTimeout(pending, handle)

\* the timeouts pending after the keypress handler saw Enter
AfterEnter(pending, handle) == pending

\* the keypress handler, e.which = 13
Enter ==
    /\ pc = "ready"
    /\ search(<<input>>)
    /\ timers' = AfterEnter(timers, debounce)
    /\ last' = <<"enter">>
    /\ UNCHANGED <<UrlVars, reloadedWith, pc, nav, fetch, rootFetch, courses_dict,
                   input, debounce, course_label, exam_count, clickRun>>

-----------------------------------------------------------------------------
(* Clicks *)

\* the run of clicks after a click on exam id that found sel selected: n counts
\* the clicks on one exam in a row, from a click that found it unselected
RunAfterClick(run, sel, id) ==
    IF StrictNeq(sel, id) THEN [id |-> id, n |-> 1]
    ELSE IF run = [id |-> id, n |-> 1] THEN [id |-> id, n |-> 2]
    ELSE NoClick

\* the click handler of an exam's li: select_exam(exam, exam_li, true)
ClickExam ==
    /\ pc = "ready"
    /\ page = "exams"
    /\ \E k \in 1..Len(dom) :
        /\ dom[k].cls = "listitem"
        /\ LET w == select_exam(
                        [dom |-> dom, selected_id |-> selected_id, hash |-> hash],
                        dom[k].exam, dom[k].li, TRUE)
           IN  /\ dom' = w.dom
               /\ selected_id' = w.selected_id
               /\ hash' = w.hash
        /\ clickRun' = RunAfterClick(clickRun, selected_id, dom[k].exam.id)
    /\ last' = <<"click", clickRun.id>>
    /\ reloadedWith' = 0
    /\ UNCHANGED <<UrlVars, pc, nav, fetch, rootFetch, courses_dict, exams_list,
                   input, timers, debounce, course_label, exam_count, uncaught>>

\* the click handler of a file row: window.open(file_url, "_blank")
ClickFile ==
    /\ pc = "ready"
    /\ page = "exams"
    /\ \E k \in 1..Len(dom) :
        /\ dom[k].cls = "file-item"
        /\ last' = <<"file", dom[k].url>>
    /\ UNCHANGED <<UrlVars, reloadedWith, hash, pc, nav, fetch, rootFetch, courses_dict,
                   exams_list, selected_id, input, timers, debounce, dom,
                   course_label, exam_count, uncaught, clickRun>>

\* the click handler of a course's li
ClickCourse ==
    /\ pc = "ready"
    /\ page = "index"
    /\ \E k \in 1..Len(dom) : nav' = <<ExamsHref(dom[k].course)>>
    /\ last' = <<"click", 0>>
    /\ UNCHANGED <<UrlVars, reloadedWith, hash, pc, fetch, rootFetch, courses_dict, exams_list,
                   selected_id, input, timers, debounce, dom, course_label,
                   exam_count, uncaught, clickRun>>

-----------------------------------------------------------------------------
(* The document's end *)

\* the navigation an assignment to window.location.href started takes place:
\* the document and its timeouts are gone
Unload ==
    /\ pc = "ready"
    /\ nav # <<>>
    /\ pc' = "unloaded"
    /\ timers' = {}
    /\ last' = <<"unload">>
    /\ UNCHANGED <<UrlVars, reloadedWith, hash, nav, fetch, rootFetch, courses_dict, exams_list,
                   selected_id, input, debounce, dom, course_label, exam_count,
                   uncaught, clickRun>>

\* the visitor reloads the page: a new document of the same URL, where the
\* scripts' top-level statements have run again
Reload ==
    /\ pc = "ready"
    /\ nav = <<>>
    /\ pc' = "loading"
    /\ fetch' = "none"
    /\ rootFetch' = "none"
    /\ courses_dict' = <<>>
    /\ exams_list' = <<>>
    /\ selected_id' = 0
    /\ input' = <<>>
    /\ timers' = {}
    /\ debounce' = 0
    /\ dom' = <<>>
    /\ course_label' = <<>>
    /\ exam_count' = <<>>
    /\ uncaught' = {}
    /\ last' = <<"open">>
    /\ clickRun' = NoClick
    /\ reloadedWith' = IF clickRun.n = 1 THEN selected_id ELSE reloadedWith
    /\ UNCHANGED <<variant, page, server, courseParam, hash, nav>>

Next ==
    \/ LoadExams
    \/ LoadCourses
    \/ ExamsFetchResolve
    \/ ExamsFetchFail
    \/ RootFetchResolve
    \/ CoursesFetchResolve
    \/ Type
    \/ Keyup
    \/ TimerFire
    \/ Enter
    \/ ClickExam
    \/ ClickFile
    \/ ClickCourse
    \/ Unload
    \/ Reload

Spec == Init /\ [][Next]_vars

-----------------------------------------------------------------------------
(* Vocabulary of the properties *)

\* the file rows in the exam list
FileRows == SelectSeq(dom, LAMBDA n : n.cls = "file-item")

\* the exams (or courses) of the list items, in display order
ListItems == SelectSeq(dom, LAMBDA n : n.cls = "listitem")

DisplayedExams == [i \in 1..Len(ListItems) |-> ListItems[i].exam]

DisplayedCourses == [i \in 1..Len(ListItems) |-> ListItems[i].course]

IsDisplayed(id) == \E i \in 1..Len(ListItems) : ListItems[i].exam.id = id

\* the exam of the catalog with an id
ExamWithId(id) ==
    server.exams[CHOOSE i \in 1..Len(server.exams) : server.exams[i].id = id]

\* the rows an expanded exam shows
RowsOf(exam) == [i \in 1..Len(exam.h) |-> FileItem(exam, i)]

FragmentOf(id) == <<"#">> \o NatToString(id)

HasCourseParam == courseParam # <<>> /\ courseParam[1] # <<>>

-----------------------------------------------------------------------------
(* Selection *)

\* C1: a first click on an exam that is not selected selects it; a second click
\* on it (searches may run in between, no other click) leaves no exam selected,
\* no file row and an empty fragment
C1_ToggleOff ==
    page = "exams" =>
        /\ clickRun.n = 1 =>
               selected_id = clickRun.id /\ hash = FragmentOf(clickRun.id)
        /\ clickRun.n = 2 =>
               selected_id = 0 /\ FileRows = <<>> /\ hash = <<>>

C1_Witness ==
    /\ clickRun = [id |-> 1, n |-> 2]
    /\ last[1] = "enter"
    /\ input # <<>>

\* C2: the file rows in the list all belong to one exam; after a click on one
\* exam and then a click on another, the second one is selected and the rows
\* are exactly its rows
C2_OneExpanded ==
    page = "exams" =>
        /\ \A i, j \in 1..Len(FileRows) : FileRows[i].of = FileRows[j].of
        /\ (last[1] = "click" /\ last[2] # 0 /\ clickRun.id # last[2]) =>
               /\ selected_id = clickRun.id
               /\ clickRun.id # 0
               /\ FileRows = RowsOf(ExamWithId(clickRun.id))

C2_Witness ==
    /\ page = "exams"
    /\ last = <<"click", 1>>
    /\ clickRun.id = 2
    /\ FileRows # <<>>

\* C3 (as claimed): after load_exams, selected_id is 0 when the fragment is
\* absent, empty or not an integer, and n when the fragment parses to n
C3_InitialSelection ==
    (page = "exams" /\ last = <<"load">>) =>
        LET n == parseInt(SubstrFrom(hash, 1))
        IN  selected_id = IF n = NaN THEN 0 ELSE n

\* C4 (as claimed): reloaded with an exam the visitor selected, the page has
\* that exam selected and its file rows expanded once the course fetch resolves
C4_ReloadRestores ==
    (reloadedWith # 0 /\ last = <<"resolve">>) =>
        /\ selected_id = reloadedWith
        /\ FileRows = RowsOf(ExamWithId(reloadedWith))

\* C4 (amended): reloaded with an exam the visitor selected, and until the next
\* click, the page keeps that exam selected through every reload, fetch and
\* search; once the fetch has resolved its rows are expanded exactly when the
\* exam is in the displayed list, which at the resolution it is when the
\* search box is blank (and with the legacy script, which then searches null)
C4_ReloadKeepsSelection ==
    (reloadedWith # 0 /\ pc # "loading") =>
        /\ selected_id = reloadedWith
        /\ fetch = "done" =>
               FileRows = IF IsDisplayed(reloadedWith)
                          THEN RowsOf(ExamWithId(reloadedWith)) ELSE <<>>
        /\ (last = <<"resolve">> /\ (Trim(input) = <<>> \/ variant = "legacy")) =>
               IsDisplayed(reloadedWith)

C4_Witness ==
    /\ reloadedWith = 2
    /\ last = <<"resolve">>
    /\ input # <<>>
    /\ FileRows = RowsOf(ExamB)

\* C5: selected_id changes only in a click, in load_exams and with the new
\* document of a reload; no search, whatever runs it, changes it
C5_SearchKeepsSelection ==
    [][selected_id' # selected_id => last'[1] \in {"click", "load", "open"}]_vars

C5_Witness ==
    /\ last[1] \in {"timer", "enter"}
    /\ fetch = "done"
    /\ selected_id \in {1, 2, 3}
    /\ ~IsDisplayed(selected_id)

-----------------------------------------------------------------------------
(* Search events *)

\* what a search of the loaded page displays for the text now in the search box
SearchShowsInput ==
    /\ (page = "exams" /\ fetch = "done") =>
           DisplayedExams = SearchExams(server.exams, <<input>>)
    /\ (page = "index" /\ fetch = "done") =>
           DisplayedCourses = SearchCourses(server.courses, <<input>>)

\* C6 (as claimed): after Enter no debounce timeout is pending
C6_EnterCancels ==
    last = <<"enter">> => timers = {}

\* C6 (amended): Enter runs the search callback at once, on the text now in the
\* search box, and leaves the pending timeout as it is: the timeout stays
\* scheduled and its evaluation still comes, a second one for the same input
C6_EnterKeepsTimer ==
    /\ [][last' = <<"enter">> =>
              /\ timers' = timers
              /\ debounce' = debounce
              /\ input' = input]_vars
    /\ [](last = <<"enter">> => SearchShowsInput)

C6_Witness ==
    /\ last = <<"enter">>
    /\ fetch = "done"
    /\ \E t \in timers : t.id = debounce /\ t.text = input
    /\ Len(ListItems) = 1

\* C7: at most one debounce timeout is pending; after a keyup exactly one is,
\* the one that keyup set, whatever the number of keyups before it; after it
\* has fired none is left to fire
C7_SingleTimer ==
    /\ Cardinality(timers) <= 1
    /\ last[1] = "keyup" =>
           /\ Cardinality(timers) = 1
           /\ \A t \in timers : t.id = debounce /\ t.text = input
    /\ last[1] = "timer" => timers = {}

C7_Witness ==
    last = <<"keyup", 1>>

\* C8: when a debounce timeout fires on a loaded page, the list displayed is the
\* search of the whole fetched catalog for the text in the search box at that
\* moment
C8_TimerReadsCurrentText ==
    last = <<"timer">> => SearchShowsInput

C8_Witness ==
    /\ last = <<"timer">>
    /\ fetch = "done"
    /\ input # <<>>
    /\ Len(ListItems) = 1

\* C9 (as claimed): a search run by a timeout or by Enter while the catalog or
\* the exam list is absent raises no error and changes nothing
C9_SearchBeforeLoadNoop ==
    [][(last'[1] \in {"timer", "enter"} /\ fetch # "done") =>
           /\ uncaught' = {}
           /\ UNCHANGED <<dom, courses_dict, exams_list, selected_id, hash,
                          nav, course_label, exam_count>>]_vars

-----------------------------------------------------------------------------
(* Unavailable catalog *)

\* the course parameter is missing or empty and load_exams has run, or the
\* fetch of the course document has failed
Unavailable ==
    /\ page = "exams"
    /\ pc # "loading"
    /\ fetch = "failed" \/ ~HasCourseParam

\* C10: once the catalog is unavailable the page is redirected to the main
\* index, the exam list is absent and nothing is displayed, the same for a
\* missing parameter and a failed fetch; from then on no step changes the list,
\* the display, the fetch or the redirection, and no search raises an error
C10_UnavailableTerminal ==
    /\ [](Unavailable =>
              /\ nav = <<IF variant = "current" THEN <<".">> ELSE <<"index.html">>>>
              /\ exams_list = <<>>
              /\ dom = <<>>
              /\ fetch = IF HasCourseParam THEN "failed" ELSE "none"
              /\ uncaught = {})
    /\ [][Unavailable =>
              UNCHANGED <<exams_list, dom, fetch, nav, selected_id, hash,
                          exam_count, uncaught>>]_vars

C10_Witness ==
    /\ Unavailable
    /\ fetch = "failed"
    /\ last = <<"enter">>
    /\ input # <<>>

-----------------------------------------------------------------------------
(* The cached catalog *)

\* C11: the cached catalog or exam list is absent until the fetch resolves and
\* from then on is the fetched payload, elements and order; within one document
\* no step changes it once it is available, whatever was searched or clicked
C11_WriteOnceCatalog ==
    /\ [](/\ exams_list = IF page = "exams" /\ fetch = "done"
                          THEN <<server.exams>> ELSE <<>>
          /\ courses_dict = IF page = "index" /\ fetch = "done"
                            THEN <<server.courses>> ELSE <<>>)
    /\ [][(exams_list # <<>> /\ last'[1] # "open") =>
              exams_list' = exams_list]_vars
    /\ [][(courses_dict # <<>> /\ last'[1] # "open") =>
              courses_dict' = courses_dict]_vars

C11_Witness ==
    /\ page = "exams"
    /\ last = <<"timer">>
    /\ exams_list = <<DefaultExams>>
    /\ DisplayedExams = <<ExamB, ExamA>>
    /\ input # <<>>
    /\ clickRun.n = 1

-----------------------------------------------------------------------------
(* The functions on their own: the searches, select_exam and the normalizer   *)
(* applied to arguments drawn from bounded sets.  server holds the list, input *)
(* the text, dom the rendering; pc is "args" before the application.           *)

\* x.toLowerCase().removeDiacritics(), as search writes it for the query, the
\* title, the author and the course name
Normalize(s) == removeDiacritics(ToLowerCase(s))

\* an exam with the year and semester of ExamA and no author
ExamD == [id |-> 4, y |-> 2021, s |-> 2, a |-> <<>>, t |-> <<"a", "l">>,
          h |-> << <<"g">> >>]

\* the sequences of up to n distinct elements of a set
DistinctSeqs(set, n) ==
    {l \in UNION {[1..k -> set] : k \in 0..n} :
        \A i, j \in 1..Len(l) : i # j => l[i] # l[j]}

\* the exam lists and "courses" objects the searches are applied to
SearchedExamLists == DistinctSeqs(ExamPool \cup {ExamD}, MaxSearchList)

SearchedCatalogs ==
    {l \in DistinctSeqs(CoursePool, MaxSearchList) :
        \A i, j \in 1..Len(l) : i # j => l[i].code # l[j].code}

\* the texts the searches are applied to
SearchedTexts ==
    { <<>>, <<" ">>, <<" ", "R", "O">>, <<LatinSmallEAcute>>,
      <<"e", CombiningAcute>>, <<"2", "0", "2", "1">>, <<"2", "0">>,
      <<"z">>, <<"G", "A">>, <<"g", "a">>, <<"i">> }

\* the characters of the texts the normalizer is applied to
TextAlphabet ==
    {" ", "E", "r", LatinCapitalEAcute, LatinSmallEAcute, CombiningAcute}

NormalizedTexts == UNION {[1..n -> TextAlphabet] : n \in 0..MaxTextLen}

PureIdle == <<courseParam, nav, fetch, rootFetch, courses_dict, exams_list,
              timers, debounce, course_label, exam_count, uncaught, clickRun,
              reloadedWith>>

PureInit ==
    /\ variant \in {"current", "legacy"}
    /\ page \in {"index", "exams", "text"}
    /\ server \in {[courses |-> c, exams |-> DefaultExams] : c \in SearchedCatalogs}
                  \cup {[courses |-> DefaultCourses, exams |-> l] :
                           l \in SearchedExamLists}
    /\ page = "index" => server.exams = DefaultExams
    /\ page = "exams" => server.courses = DefaultCourses
    /\ page = "text" => /\ server = [courses |-> DefaultCourses, exams |-> DefaultExams]
                        /\ variant = "current"
    /\ input \in IF page = "text" THEN NormalizedTexts ELSE {<<>>}
    /\ pc = "args"
    /\ courseParam = <<>>
    /\ hash = <<>>
    /\ nav = <<>>
    /\ fetch = "done"
    /\ rootFetch = "none"
    /\ courses_dict = <<>>
    /\ exams_list = <<>>
    /\ selected_id = 0
    /\ timers = {}
    /\ debounce = 0
    /\ dom = <<>>
    /\ course_label = <<>>
    /\ exam_count = <<>>
    /\ uncaught = {}
    /\ last = <<"args">>
    /\ clickRun = NoClick
    /\ reloadedWith = 0

\* search applied to the list: the current scripts read the text of the search
\* box, the legacy ones take an argument, null at the fetch's resolution
ApplySearch ==
    /\ pc \in {"args", "searched"}
    /\ page \in {"index", "exams"}
    /\ \E text \in SearchedTexts :
       \E query \in IF variant = "current" THEN {<<text>>} ELSE {<<>>, <<text>>} :
        /\ input' = text
        /\ last' = <<"search", query>>
        /\ IF page = "exams"
           THEN LET w == create_exam_list(
                             [dom |-> dom, selected_id |-> selected_id, hash |-> hash],
                             SearchExams(server.exams, query))
                IN  dom' = w.dom /\ selected_id' = w.selected_id /\ hash' = w.hash
           ELSE /\ dom' = create_course_list(variant,
                              SearchCourses(server.courses, query))
                /\ UNCHANGED <<selected_id, hash>>
    /\ pc' = "searched"
    /\ UNCHANGED <<variant, page, server, PureIdle>>

\* select_exam applied to an exam of the rendered list, as its click does
ApplySelect ==
    /\ pc = "searched"
    /\ page = "exams"
    /\ \E k \in 1..Len(dom) :
        /\ dom[k].cls = "listitem"
        /\ LET w == select_exam(
                        [dom |-> dom, selected_id |-> selected_id, hash |-> hash],
                        dom[k].exam, dom[k].li, TRUE)
           IN  dom' = w.dom /\ selected_id' = w.selected_id /\ hash' = w.hash
        /\ last' = <<"select", dom[k].exam.id>>
    /\ pc' = "selected"
    /\ UNCHANGED <<variant, page, server, input, PureIdle>>

\* the normalizer applied to the text
ApplyNormalize ==
    /\ pc = "args"
    /\ page = "text"
    /\ input' = Normalize(input)
    /\ last' = <<"normalize", input>>
    /\ pc' = "normalized"
    /\ UNCHANGED <<variant, page, server, selected_id, hash, dom, PureIdle>>

PureNext ==
    \/ ApplySearch
    \/ ApplySelect
    \/ ApplyNormalize

PureSpec == PureInit /\ [][PureNext]_vars

-----------------------------------------------------------------------------
(* The exam search as a function *)

\* the place of an exam in a list of exams of distinct ids
PlaceIn(list, exam) == CHOOSE i \in 1..Len(list) : list[i].id = exam.id

\* the query of the search just applied: <<>> for null, <<text>> otherwise
AppliedQuery == last[2]

ExamSearchApplied == pc = "searched" /\ page = "exams"

CourseSearchApplied == pc = "searched" /\ page = "index"

\* C12: in the result of the exam search, whatever the list and the query, an
\* exam that precedes another has the later year, or the same year and a
\* semester not after the other's; the exams shown stand in the order they
\* have in the list sorted without a query, exams of equal year and semester
\* in the order of the fetched list
C12_ExamSortOrder ==
    ExamSearchApplied =>
        LET shown == DisplayedExams
            whole == SearchExams(server.exams, <<>>)
        IN  \A i, j \in 1..Len(shown) : i < j =>
                /\ \/ shown[i].y > shown[j].y
                   \/ shown[i].y = shown[j].y /\ shown[i].s <= shown[j].s
                /\ PlaceIn(whole, shown[i]) < PlaceIn(whole, shown[j])
                /\ (shown[i].y = shown[j].y /\ shown[i].s = shown[j].s) =>
                       PlaceIn(server.exams, shown[i]) < PlaceIn(server.exams, shown[j])

C12_Witness ==
    /\ ExamSearchApplied
    /\ server.exams = <<ExamA, ExamC, ExamB>>
    /\ DisplayedExams = <<ExamB, ExamA, ExamC>>
    /\ AppliedQuery = << <<"2", "0">> >>

\* C13: a search whose query is null, empty or white space only shows every
\* entry of the list it is applied to, sorted, whatever was searched before:
\* the exams by year descending then semester ascending, the courses by code
C13_IdentityFilter ==
    (pc = "searched" /\ (AppliedQuery = <<>> \/
                             \A i \in 1..Len(AppliedQuery[1]) :
                                 IsSpace(AppliedQuery[1][i]))) =>
        /\ page = "exams" =>
               LET shown == DisplayedExams
               IN  /\ Len(shown) = Len(server.exams)
                   /\ \A k \in 1..Len(server.exams) :
                          \E i \in 1..Len(shown) : shown[i] = server.exams[k]
                   /\ \A i, j \in 1..Len(shown) : i < j =>
                          \/ shown[i].y > shown[j].y
                          \/ shown[i].y = shown[j].y /\ shown[i].s <= shown[j].s
        /\ page = "index" =>
               LET shown == DisplayedCourses
               IN  /\ Len(shown) = Len(server.courses)
                   /\ \A k \in 1..Len(server.courses) :
                          \E i \in 1..Len(shown) : shown[i] = server.courses[k]
                   /\ \A i, j \in 1..Len(shown) : i < j =>
                          LocaleCompare(shown[i].code, shown[j].code) <= 0

C13_Witness ==
    /\ CourseSearchApplied
    /\ AppliedQuery = << <<" ">> >>
    /\ server.courses = <<CourseA, CourseC, CourseB>>
    /\ DisplayedCourses = <<CourseB, CourseC, CourseA>>

\* C14 (as claimed): for a query that is not blank, with q the normalized
\* trimmed query, the course search shows exactly the courses whose normalized
\* code or normalized name contains q or is contained in q, in sorted order
C14_CourseFilterPredicate ==
    (CourseSearchApplied /\ HasQuery(AppliedQuery)) =>
        LET q == Normalize(Trim(AppliedQuery[1]))
            whole == SearchCourses(server.courses, <<>>)
        IN  DisplayedCourses =
                SelectSeq(whole, LAMBDA course :
                    \/ includesBothways(q, Normalize(course.code))
                    \/ includesBothways(q, Normalize(course.name)))

\* C15: an exam whose title is the empty string, or whose author is, is shown
\* by the exam search for every query that is not empty, whatever its other
\* fields; the filter reads the raw fields, the placeholders are in the
\* rendering only
C15_EmptyFieldMatches ==
    (ExamSearchApplied /\ AppliedQuery # <<>> /\ AppliedQuery[1] # <<>>) =>
        \A k \in 1..Len(server.exams) :
            LET exam == server.exams[k]
            IN  (exam.t = <<>> \/ exam.a = <<>>) =>
                    \E i \in 1..Len(ListItems) :
                        /\ ListItems[i].exam = exam
                        /\ exam.t = <<>> =>
                               Includes(ListItems[i].text, <<"Examen inconnu">>)
                        /\ exam.a = <<>> =>
                               Includes(ListItems[i].text, <<"Auteur inconnu">>)

C15_Witness ==
    /\ ExamSearchApplied
    /\ AppliedQuery = << <<"z">> >>
    /\ server.exams = <<ExamB, ExamD, ExamA>>
    /\ DisplayedExams = <<ExamD, ExamA>>

-----------------------------------------------------------------------------
(* select_exam as a function *)

\* C16: selecting an exam with the files h1..hn puts exactly n file rows in the
\* list, right behind the exam's item and in the order of the files; the i-th
\* is labelled "Fichier i" and opens exam/<first two characters of hi>/<hi>.pdf;
\* the exam's files are as they were fetched
C16_FileRows ==
    pc = "selected" =>
        LET e == ExamWithId(last[2])
            p == CHOOSE k \in 1..Len(dom) :
                     dom[k].cls = "listitem" /\ dom[k].exam.id = e.id
        IN  /\ dom[p].exam = e
            /\ Len(FileRows) = Len(e.h)
            /\ Len(dom) >= p + Len(e.h)
            /\ \A i \in 1..Len(e.h) :
                   LET hi == e.h[i]
                       two == SubSeq(hi, 1, IF Len(hi) < 2 THEN Len(hi) ELSE 2)
                   IN  /\ dom[p + i].cls = "file-item"
                       /\ dom[p + i].text = <<"Fichier ">> \o NatToString(i)
                       /\ dom[p + i].url =
                              <<"exam/">> \o two \o <<"/">> \o hi \o <<".pdf">>

C16_Witness ==
    /\ pc = "selected"
    /\ last = <<"select", 1>>
    /\ server.exams = <<ExamC, ExamA, ExamB>>
    /\ Len(FileRows) = 2
    /\ FileRows[2].url = <<"exam/", "c", "/", "c", ".pdf">>

-----------------------------------------------------------------------------
(* The normalizer as a function *)

\* C17: a normalized text is normalized to itself: for the text s the normalizer
\* was applied to, normalize(normalize(s)) = normalize(s)
C17_NormalizeIdempotent ==
    pc = "normalized" =>
        /\ input = Normalize(last[2])
        /\ Normalize(input) = input

C17_Witness ==
    /\ pc = "normalized"
    /\ last[2] = <<LatinCapitalEAcute, CombiningAcute, "E">>
    /\ input = <<"e", "e">>

-----------------------------------------------------------------------------
(* Selection and display of the exam page *)

\* an exam is selected: selected_id is neither 0 nor NaN
IsSelected == selected_id # 0 /\ selected_id # NaN

\* C18 (as claimed): from load_exams on, the fragment is "#" followed by
\* selected_id when an exam is selected and empty when none is
C18_FragmentSync ==
    (page = "exams" /\ pc # "loading") =>
        hash = IF IsSelected THEN FragmentOf(selected_id) ELSE <<>>

\* C19: on the exam page, the exams of the model having distinct ids other
\* than 0, the file rows in the list are the rows of the exam whose id is
\* selected_id when that exam is in the displayed list, and there are none
\* otherwise: a search that filters the selected exam out removes its rows and
\* keeps selected_id, a later one that shows it again brings them back
C19_ExpandedIffDisplayed ==
    page = "exams" =>
        FileRows = IF IsDisplayed(selected_id)
                   THEN RowsOf(ExamWithId(selected_id)) ELSE <<>>

\* the selected exam has come back with its rows in a search, without a click
C19_Witness ==
    /\ page = "exams"
    /\ last[1] \in {"timer", "enter"}
    /\ clickRun = [id |-> 2, n |-> 1]
    /\ input = <<LatinSmallEAcute>>
    /\ Len(DisplayedExams) = 1
    /\ FileRows = RowsOf(ExamB)

-----------------------------------------------------------------------------
(* Typing and the fetch *)

\* C20 (as claimed): after the fetch's resolution, a timeout's firing or Enter,
\* when the catalog has resolved and no debounce timeout is pending, the list
\* displayed is the search result for the text now in the search box
C20_QuiescentConsistency ==
    (fetch = "done" /\ timers = {} /\ last[1] \in {"resolve", "timer", "enter"}) =>
        SearchShowsInput

====
